---- MODULE Spec2Model ----
(***************************************************************************)
(* Business Manager API (src/app.py): employees, shifts, the tax/super     *)
(* rule record, roster generation and payroll.                             *)
(*                                                                         *)
(* Representation of the program's values                                  *)
(*   Optional[x]   a sequence of length <= 1: None == <<>>, Some(x)==<<x>>  *)
(*   "HH:MM"       the pair <<hh, mm>>; parse_time turns it into seconds    *)
(*   "YYYY-MM-DD"  the triple <<y, m, d>>; parse_date turns it into a key   *)
(*                 that orders as the dates do                             *)
(*   hours         a float h is carried as the integer 3600*h (seconds)     *)
(*   money         a float amount is carried as the integer 100*amount      *)
(*                 (cents); round(x, 2) is Round over exact quotients       *)
(*   rates         a float rate is carried as the integer 1000*rate         *)
(*   tables        sequences in insertion order; ids are 1, 2, ... as the   *)
(*                 autoincrement primary key gives them (rows are never     *)
(*                 deleted)                                                *)
(***************************************************************************)
EXTENDS Integers, Sequences, FiniteSets, TLC

\* ------------------------------------------------------------------ bounds
MaxEmployees == 2
MaxShifts == 2

\* ------------------------------------------------------------ value helpers
None == <<>>
Some(x) == <<x>>
IsNone(o) == o = <<>>
Val(o) == o[1]

\* Units of the fixed-point carriers.
SecondsPerHour == 3600
SecondsPerDay == 86400

\* ----------------------------------------------------------------- helpers

\* datetime.strptime(hhmm, "%H:%M"): seconds after 1900-01-01 00:00.
parse_time(hhmm) == hhmm[1] * SecondsPerHour + hhmm[2] * 60

\* The time-of-day difference with the wrap dropped and the whole timedelta
\* (days included) converted: negative for an overnight pair.
hours_between_total(start, end) == parse_time(end) - parse_time(start)

\* (e - s).seconds is the seconds field of the normalised timedelta, in
\* 0..86399, whatever its days field is.  Result: 3600 * hours.
hours_between(start, end) ==
    LET s == parse_time(start)
        e0 == parse_time(end)
        e == IF e0 < s THEN e0 + SecondsPerDay ELSE e0
    IN (e - s) % SecondsPerDay

\* datetime.strptime(day, "%Y-%m-%d"), as a key ordered like the dates.
parse_date(d) == (d[1] * 12 + (d[2] - 1)) * 31 + (d[3] - 1)

within_period(day_str, start, end) ==
    LET d == parse_date(day_str)
        s == parse_date(start)
        e == parse_date(end)
    IN s <= d /\ d <= e

\* The integer nearest to n / d for d > 0, ties to even as Python's round
\* has them; \div floors.
Round(n, d) ==
    LET q == n \div d
        r == n % d
    IN IF 2 * r < d THEN q
       ELSE IF 2 * r > d THEN q + 1
       ELSE IF q % 2 = 0 THEN q ELSE q + 1

\* round(x, 2) of an amount x = n / 1000 cents (a money * rate product).
round2(n) == Round(n, 1000)

\* TaxSuperRule(): the defaults of the table's columns.
DefaultRule ==
    [ super_rate |-> 115, int_student_weekly_cap |-> 24,
      bracket1_max |-> 50000, bracket1_rate |-> 50,
      bracket2_max |-> 100000, bracket2_base |-> 2500, bracket2_rate |-> 150,
      bracket3_base |-> 10000, bracket3_rate |-> 250,
      abn_withholding_rate |-> 0 ]

\* compute_tax with the bracket edges open (< for <=).
compute_tax_open(emp, gross, r) ==
    IF emp.employment_type = "ABN"
    THEN round2(gross * r.abn_withholding_rate)
    ELSE IF gross < r.bracket1_max
    THEN round2(gross * r.bracket1_rate)
    ELSE IF gross < r.bracket2_max
    THEN round2(r.bracket2_base * 1000
                + (gross - r.bracket1_max) * r.bracket2_rate)
    ELSE round2(r.bracket3_base * 1000
                + (gross - r.bracket2_max) * r.bracket3_rate)

\* compute_tax(emp, gross, weekly_hours, r); weekly_hours is never read.
compute_tax(emp, gross, r) ==
    IF emp.employment_type = "ABN"
    THEN round2(gross * r.abn_withholding_rate)
    ELSE IF gross <= r.bracket1_max
    THEN round2(gross * r.bracket1_rate)
    ELSE IF gross <= r.bracket2_max
    THEN round2(r.bracket2_base * 1000
                + (gross - r.bracket1_max) * r.bracket2_rate)
    ELSE round2(r.bracket3_base * 1000
                + (gross - r.bracket2_max) * r.bracket3_rate)

compute_super(gross, r) == round2(gross * r.super_rate)

\* ------------------------------------------------------------------ inputs
\* Request bodies the API is driven with.

Day1 == <<2024, 6, 15>>
Day2 == <<2024, 7, 1>>

\* EmployeeIn bodies (name, email, tfn, abn, max_hours_week are stored and
\* never read by any handler; they are left out).
EmployeeInputs ==
    { [employment_type |-> "TFN", hourly_rate |-> 2500,
       role |-> Some("barista"), pay_preference |-> "cash"],
      [employment_type |-> "INT_STUDENT", hourly_rate |-> 2000,
       role |-> Some("barista"), pay_preference |-> "cash"],
      [employment_type |-> "ABN", hourly_rate |-> 2000,
       role |-> Some("chef"), pay_preference |-> "bank"] }

\* ShiftIn bodies (expected_busyness is stored and never read).
ShiftInputs ==
    { [employee_id |-> None, day |-> Day1, start |-> <<9, 0>>, end |-> <<13, 0>>,
       role |-> Some("barista"), max_shift_hours |-> Some(3)],
      [employee_id |-> None, day |-> Day1, start |-> <<9, 0>>, end |-> <<13, 0>>,
       role |-> Some("barista"), max_shift_hours |-> Some(4)],
      [employee_id |-> None, day |-> Day2, start |-> <<22, 0>>, end |-> <<6, 0>>,
       role |-> None, max_shift_hours |-> Some(8)],
      [employee_id |-> None, day |-> Day2, start |-> <<22, 0>>, end |-> <<6, 30>>,
       role |-> None, max_shift_hours |-> Some(8)],
      [employee_id |-> Some(2), day |-> Day1, start |-> <<9, 0>>, end |-> <<17, 0>>,
       role |-> Some("chef"), max_shift_hours |-> None] }

\* PayrollReq bodies: June, a period whose two ends are shift days, and an
\* inverted period.
PayrollInputs ==
    { [period_start |-> <<2024, 6, 1>>, period_end |-> <<2024, 6, 30>>,
       default_pay_method |-> "cash"],
      [period_start |-> Day1, period_end |-> Day2, default_pay_method |-> "cash"],
      [period_start |-> Day2, period_end |-> Day1, default_pay_method |-> "cash"] }

\* RuleUpdate bodies: the fields that are not None.
RuleInputs ==
    { [bracket1_max |-> 10000],
      [bracket2_max |-> 16000, abn_withholding_rate |-> 200] }

\* -------------------------------------------------------------------- state
VARIABLES
    employees,   \* table employee, in insertion order
    shifts,      \* table shift, in insertion order
    rule,        \* the one row of table taxsuperrule
    last,        \* the most recent call and its response
    wpc,         \* concurrent roster requests: where each one is
    wEmps,       \* ... the employees it loaded
    wShifts,     \* ... the shifts it loaded
    fin,         \* pure-function harness: the arguments
    fout         \* pure-function harness: the result

vars == <<employees, shifts, rule, last, wpc, wEmps, wShifts, fin, fout>>

Workers == {1, 2}

Response(op, status, req, lines) ==
    [op |-> op, status |-> status, req |-> req, lines |-> lines]

dbVars == <<employees, shifts, rule>>
workerVars == <<wpc, wEmps, wShifts>>
fnVars == <<fin, fout>>

\* The database after APP INIT (tables created, the default rule row added),
\* no request running.
InitDb ==
    /\ employees = <<>>
    /\ shifts = <<>>
    /\ rule = DefaultRule
    /\ last = Response("init", "ok", None, <<>>)

InitWorkers ==
    /\ wpc = [w \in Workers |-> "idle"]
    /\ wEmps = [w \in Workers |-> <<>>]
    /\ wShifts = [w \in Workers |-> <<>>]

InitFn ==
    /\ fin = None
    /\ fout = None

Init == InitDb /\ InitWorkers /\ InitFn

\* ---------------------------------------------------------------- employees

\* create_employee storing the requested pay_preference as it is.
create_employee_keep(e) ==
    /\ Len(employees) < MaxEmployees
    /\ LET emp == [id |-> Len(employees) + 1,
                   employment_type |-> e.employment_type,
                   hourly_rate |-> e.hourly_rate,
                   role |-> e.role,
                   pay_preference |-> e.pay_preference]
       IN /\ employees' = Append(employees, emp)
          /\ last' = Response("create_employee", "ok", None, <<>>)
    /\ UNCHANGED <<shifts, rule>>

create_employee(e) ==
    /\ Len(employees) < MaxEmployees
    /\ LET emp == [id |-> Len(employees) + 1,
                   employment_type |-> e.employment_type,
                   hourly_rate |-> e.hourly_rate,
                   role |-> e.role,
                   pay_preference |->
                       IF e.employment_type = "INT_STUDENT"
                       THEN "bank" ELSE e.pay_preference]
       IN /\ employees' = Append(employees, emp)
          /\ last' = Response("create_employee", "ok", None, <<>>)
    /\ UNCHANGED <<shifts, rule>>

\* ------------------------------------------------------------------- roster

\* h > sh.max_shift_hours, h carried in seconds and the cap in hours.
ExceedsCap(sh) ==
    /\ ~IsNone(sh.max_shift_hours)
    /\ hours_between(sh.start, sh.end) > Val(sh.max_shift_hours) * SecondsPerHour

NewShift(shift) ==
    [id |-> Len(shifts) + 1, employee_id |-> shift.employee_id,
     day |-> shift.day, start |-> shift.start, end |-> shift.end,
     role |-> shift.role, max_shift_hours |-> shift.max_shift_hours]

\* add_shift without the max_shift_hours check.
add_shift_unchecked(shift) ==
    /\ Len(shifts) < MaxShifts \/ ExceedsCap(shift)
    /\ shifts' = Append(shifts, NewShift(shift))
    /\ last' = Response("add_shift", "ok", Some(shift), <<>>)
    /\ UNCHANGED <<employees, rule>>

add_shift(shift) ==
    /\ IF ExceedsCap(shift)
       THEN /\ last' = Response("add_shift", "400", Some(shift), <<>>)
            /\ UNCHANGED shifts
       ELSE /\ Len(shifts) < MaxShifts
            /\ shifts' = Append(shifts, NewShift(shift))
            /\ last' = Response("add_shift", "ok", Some(shift), <<>>)
    /\ UNCHANGED <<employees, rule>>

\* [e for e in employees if (sh.role is None or e.role == sh.role)]
Candidates(emps, sh) ==
    SelectSeq(emps, LAMBDA e : IsNone(sh.role) \/ e.role = sh.role)

\* One step of a stable sort by hourly_rate: e goes after every element whose
\* rate is not greater than its own.
InsertByRate(sorted, e) ==
    LET k == Cardinality({i \in 1..Len(sorted) :
                            sorted[i].hourly_rate <= e.hourly_rate})
    IN SubSeq(sorted, 1, k) \o <<e>> \o SubSeq(sorted, k + 1, Len(sorted))

RECURSIVE SortedByRate(_)
\* sorted(cand, key=lambda e: e.hourly_rate)
SortedByRate(cand) ==
    IF cand = <<>> THEN <<>>
    ELSE InsertByRate(SortedByRate(SubSeq(cand, 1, Len(cand) - 1)),
                      cand[Len(cand)])

\* The assignment loop without its skip of assigned shifts.
RosterAssignAll(emps, shs) ==
    [i \in 1..Len(shs) |->
        LET cand == Candidates(emps, shs[i])
        IN IF cand = <<>> THEN shs[i]
           ELSE [shs[i] EXCEPT !.employee_id = Some(SortedByRate(cand)[1].id)]]

\* The assignment loop of generate_roster over the loaded rows.
RosterAssign(emps, shs) ==
    [i \in 1..Len(shs) |->
        IF ~IsNone(shs[i].employee_id) THEN shs[i]
        ELSE LET cand == Candidates(emps, shs[i])
             IN IF cand = <<>> THEN shs[i]
                ELSE [shs[i] EXCEPT
                        !.employee_id = Some(SortedByRate(cand)[1].id)]]

\* "not sh.employee_id": None and 0 are both falsy.
Falsy(employee_id) == IsNone(employee_id) \/ Val(employee_id) = 0

HasEmployee(emps, id) == \E i \in 1..Len(emps) : emps[i].id = id

EmployeeById(emps, id) == emps[CHOOSE i \in 1..Len(emps) : emps[i].id = id]

\* The totals step: s.get(Employee, emp_id) is None for an id that is not
\* stored, and emp.hourly_rate then raises.
TotalsRaises(emps, shs) ==
    \E i \in 1..Len(shs) :
        /\ ~Falsy(shs[i].employee_id)
        /\ ~HasEmployee(emps, Val(shs[i].employee_id))

\* generate_roster, one request running alone.  The totals it returns are
\* not stored; of the response only whether the call raised is kept.
generate_roster ==
    /\ shifts' = RosterAssign(employees, shifts)
    /\ last' = Response("generate_roster",
                        IF TotalsRaises(employees, shifts') THEN "500" ELSE "ok",
                        None, <<>>)
    /\ UNCHANGED <<employees, rule>>

\* ------------------------------------------------------------------ payroll

\* per_emp_hours[k] = per_emp_hours.get(k, 0.0) + h on a dict kept as the
\* sequence of its items in insertion order.
DictAdd(d, k, h) ==
    IF \E i \in 1..Len(d) : d[i].employee_id = k
    THEN [i \in 1..Len(d) |->
            IF d[i].employee_id = k
            THEN [d[i] EXCEPT !.hours = @ + h] ELSE d[i]]
    ELSE Append(d, [employee_id |-> k, hours |-> h])

RECURSIVE PerEmpHours(_, _, _)
\* The first loop of payroll_calc over the first n loaded shifts.
PerEmpHours(shs, req, n) ==
    IF n = 0 THEN <<>>
    ELSE LET d == PerEmpHours(shs, req, n - 1)
             sh == shs[n]
         IN IF Falsy(sh.employee_id) THEN d
            ELSE IF within_period(sh.day, req.period_start, req.period_end)
            THEN DictAdd(d, Val(sh.employee_id),
                         hours_between(sh.start, sh.end))
            ELSE d

\* A pay line whose net also has the super taken off.
PayLineLessSuper(emp, hrs, r, req) ==
    LET gross == Round(hrs * emp.hourly_rate, SecondsPerHour)
        tax == compute_tax(emp, gross, r)
        sup == compute_super(gross, r)
    IN [employee_id |-> emp.id, hours |-> hrs, gross |-> gross, tax |-> tax,
        super |-> sup, net |-> Round(gross - tax - sup, 1),
        pay_method |-> IF emp.employment_type # "ABN"
                       THEN emp.pay_preference ELSE req.default_pay_method]

\* The body of the second loop of payroll_calc: hrs is in seconds and the
\* rate in cents an hour, so round(hrs * rate, 2) is Round(_, 3600) cents.
PayLine(emp, hrs, r, req) ==
    LET gross == Round(hrs * emp.hourly_rate, SecondsPerHour)
        tax == compute_tax(emp, gross, r)
        sup == compute_super(gross, r)
    IN [employee_id |-> emp.id, hours |-> hrs, gross |-> gross, tax |-> tax,
        super |-> sup, net |-> Round(gross - tax, 1),
        pay_method |-> IF emp.employment_type # "ABN"
                       THEN emp.pay_preference ELSE req.default_pay_method]

\* payroll_calc: employees[emp_id] raises KeyError for an id that is not
\* stored, and the request then returns no line at all.
payroll_calc(req) ==
    /\ LET d == PerEmpHours(shifts, req, Len(shifts))
       IN IF \E k \in 1..Len(d) : ~HasEmployee(employees, d[k].employee_id)
          THEN last' = Response("payroll_calc", "500", Some(req), <<>>)
          ELSE last' = Response("payroll_calc", "ok", Some(req),
                         [k \in 1..Len(d) |->
                            PayLine(EmployeeById(employees, d[k].employee_id),
                                    d[k].hours, rule, req)])
    /\ UNCHANGED <<employees, shifts, rule>>

\* -------------------------------------------------------------- tax & super

\* for field, value in update.model_dump(exclude_none=True).items():
\*     setattr(r, field, value)
Merged(r, update) ==
    [f \in DOMAIN r |-> IF f \in DOMAIN update THEN update[f] ELSE r[f]]

update_tax_super_rules(update) ==
    /\ rule' = Merged(rule, update)
    /\ last' = Response("update_tax_super_rules", "ok", None, <<>>)
    /\ UNCHANGED <<employees, shifts>>

\* ------------------------------------------------- requests one at a time
\* No concurrent roster request and no harness run is in progress.
Quiet == UNCHANGED <<workerVars, fnVars>>

Next ==
    \/ \E e \in EmployeeInputs : create_employee(e) /\ Quiet
    \/ \E sh \in ShiftInputs : add_shift(sh) /\ Quiet
    \/ generate_roster /\ Quiet
    \/ \E req \in PayrollInputs : payroll_calc(req) /\ Quiet
    \/ \E u \in RuleInputs : update_tax_super_rules(u) /\ Quiet

Spec == Init /\ [][Next]_vars

\* ------------------------------------------- concurrent roster generation
\* generate_roster as the statements of one request, for requests that run
\* at the same time (the endpoints are sync functions, which FastAPI runs on
\* a thread pool).  Each statement is one step: the two SELECTs, the commit
\* of the assignments, and the totals read after it.  pysqlite opens no
\* transaction for a SELECT, so each statement sees the rows as committed.

\* employees = s.exec(select(Employee)).all()
RosterLoadEmployees(w) ==
    /\ wpc[w] = "idle"
    /\ wpc' = [wpc EXCEPT ![w] = "employees_loaded"]
    /\ wEmps' = [wEmps EXCEPT ![w] = employees]
    /\ UNCHANGED <<employees, shifts, rule, last, wShifts>>

\* shifts = s.exec(select(Shift)).all()
RosterLoadShifts(w) ==
    /\ wpc[w] = "employees_loaded"
    /\ wpc' = [wpc EXCEPT ![w] = "shifts_loaded"]
    /\ wShifts' = [wShifts EXCEPT ![w] = shifts]
    /\ UNCHANGED <<employees, shifts, rule, last, wEmps>>

\* The rows the request changed in its session: the flush issues one
\* UPDATE shift SET employee_id = ? WHERE id = ? for each of them.
Dirty(w) ==
    {i \in 1..Len(wShifts[w]) :
        RosterAssign(wEmps[w], wShifts[w])[i].employee_id
            # wShifts[w][i].employee_id}

\* A commit that writes a row only while it is still unassigned in the
\* table (an optimistic check the code does not make).
RosterCommitIfUnassigned(w) ==
    /\ wpc[w] = "shifts_loaded"
    /\ wpc' = [wpc EXCEPT ![w] = "committed"]
    /\ shifts' = [i \in 1..Len(shifts) |->
                    IF i \in Dirty(w) /\ IsNone(shifts[i].employee_id)
                    THEN [shifts[i] EXCEPT !.employee_id =
                            RosterAssign(wEmps[w], wShifts[w])[i].employee_id]
                    ELSE shifts[i]]
    /\ UNCHANGED <<employees, rule, last, wEmps, wShifts>>

\* The assignment loop over the loaded rows, and s.commit().
RosterCommit(w) ==
    /\ wpc[w] = "shifts_loaded"
    /\ wpc' = [wpc EXCEPT ![w] = "committed"]
    /\ shifts' = [i \in 1..Len(shifts) |->
                    IF i \in Dirty(w)
                    THEN [shifts[i] EXCEPT !.employee_id =
                            RosterAssign(wEmps[w], wShifts[w])[i].employee_id]
                    ELSE shifts[i]]
    /\ UNCHANGED <<employees, rule, last, wEmps, wShifts>>

\* The totals step and the response.  The commit expired the loaded rows, so
\* the loop reads each loaded shift as it is stored now.
RosterTotals(w) ==
    /\ wpc[w] = "committed"
    /\ wpc' = [wpc EXCEPT ![w] = "idle"]
    /\ wEmps' = [wEmps EXCEPT ![w] = <<>>]
    /\ wShifts' = [wShifts EXCEPT ![w] = <<>>]
    /\ last' = Response("generate_roster",
                        IF TotalsRaises(employees,
                                        SubSeq(shifts, 1, Len(wShifts[w])))
                        THEN "500" ELSE "ok",
                        None, <<>>)
    /\ UNCHANGED <<employees, shifts, rule>>

\* The requests that run beside the roster requests: two baristas of
\* different rates, and the unassigned barista shift that is accepted.
ConcEmployeeInputs == {e \in EmployeeInputs : e.role = Some("barista")}
ConcShiftInputs ==
    {sh \in ShiftInputs : /\ IsNone(sh.employee_id)
                          /\ sh.role = Some("barista")
                          /\ ~ExceedsCap(sh)}

NextConc ==
    \/ \E e \in ConcEmployeeInputs :
          create_employee(e) /\ UNCHANGED <<workerVars, fnVars>>
    \/ \E sh \in ConcShiftInputs :
          add_shift(sh) /\ UNCHANGED <<workerVars, fnVars>>
    \/ \E w \in Workers : RosterLoadEmployees(w) /\ UNCHANGED fnVars
    \/ \E w \in Workers : RosterLoadShifts(w) /\ UNCHANGED fnVars
    \/ \E w \in Workers : RosterCommit(w) /\ UNCHANGED fnVars
    \/ \E w \in Workers : RosterTotals(w) /\ UNCHANGED fnVars

SpecConc == Init /\ [][NextConc]_vars

\* ---------------------------------------------------- the pure functions
\* hours_between and compute_tax applied to arguments drawn from sets that
\* cover their cases; the database is not touched.

TimeInputs == {<<h, m>> : h \in 0..23, m \in {0, 15, 30, 59}}

InitTime ==
    /\ InitDb /\ InitWorkers
    /\ fin \in {[start |-> a, end |-> b] : a \in TimeInputs, b \in TimeInputs}
    /\ fout = None

ApplyHoursBetween ==
    /\ fout = None
    /\ fout' = Some(hours_between(fin.start, fin.end))
    /\ UNCHANGED <<dbVars, last, workerVars, fin>>

SpecTime == InitTime /\ [][ApplyHoursBetween]_vars

\* Gross amounts (cents) below, on and above the bracket edges of TaxRules.
GrossInputs ==
    { -1000, 0, 1, 9999, 10000, 10001, 15999, 16000, 16001, 49999, 50000,
      50001, 99999, 100000, 100001, 250000 }

\* Rule records: the defaults, what the RuleInputs make of them, and a
\* record whose first edge lies above its second.
TaxRules ==
    { DefaultRule }
      \cup { Merged(DefaultRule, u) : u \in RuleInputs }
      \cup { Merged(Merged(DefaultRule, u), v) : u \in RuleInputs, v \in RuleInputs }
      \cup { Merged(DefaultRule, [bracket1_max |-> 100000, bracket2_max |-> 50000]) }

InitTax ==
    /\ InitDb /\ InitWorkers
    /\ fin \in {[emp |-> [employment_type |-> t], gross |-> g, r |-> r] :
                  t \in {"TFN", "ABN", "INT_STUDENT"}, g \in GrossInputs,
                  r \in TaxRules}
    /\ fout = None

ApplyComputeTax ==
    /\ fout = None
    /\ fout' = Some(compute_tax(fin.emp, fin.gross, fin.r))
    /\ UNCHANGED <<dbVars, last, workerVars, fin>>

SpecTax == InitTax /\ [][ApplyComputeTax]_vars

\* ------------------------------------------------------------------ claims

\* The stored duration of a shift, as the claims state it: end - start, plus
\* 24 h when end is before start (seconds).
Elapsed(sh) ==
    LET s == sh.start[1] * 60 + sh.start[2]
        e == sh.end[1] * 60 + sh.end[2]
    IN IF e >= s THEN (e - s) * 60 ELSE (e + 24 * 60 - s) * 60

OverCap(sh) ==
    /\ sh.max_shift_hours # None
    /\ Elapsed(sh) > Val(sh.max_shift_hours) * 3600

ShiftsWithinCap == \A i \in 1..Len(shifts) : ~OverCap(shifts[i])

\* C2: every stored shift that has a max_shift_hours lasts no longer than it,
\* and an add_shift whose duration exceeds its cap is answered with an error
\* and leaves the stored shifts as they were.
C2_ShiftsWithinCap ==
    /\ []ShiftsWithinCap
    /\ [][(last'.op = "add_shift" /\ OverCap(Val(last'.req)))
            => (last'.status = "400" /\ shifts' = shifts)]_vars

\* A capped shift is stored right at its cap and a later add_shift was
\* rejected.
C2_Witness ==
    /\ last.op = "add_shift" /\ last.status = "400"
    /\ \E i \in 1..Len(shifts) :
          /\ shifts[i].max_shift_hours # None
          /\ Elapsed(shifts[i]) = Val(shifts[i].max_shift_hours) * 3600
          /\ shifts[i].end[1] < shifts[i].start[1]

\* C7: every stored INT_STUDENT employee has pay_preference bank, and no
\* operation changes or removes an employee once it is stored.
C7_IntStudentPaidByBank ==
    /\ [](\A i \in 1..Len(employees) :
            employees[i].employment_type = "INT_STUDENT"
                => employees[i].pay_preference = "bank")
    /\ [][/\ Len(employees') >= Len(employees)
          /\ \A i \in 1..Len(employees) : employees'[i] = employees[i]]_vars

\* An INT_STUDENT (every such request asks for cash) is stored and the roster
\* has been generated since.
C7_Witness ==
    /\ \E i \in 1..Len(employees) :
          /\ employees[i].employment_type = "INT_STUDENT"
          /\ \E j \in 1..Len(shifts) : shifts[j].employee_id = Some(i)
    /\ last.op = "generate_roster"

\* The employees a shift can go to, as the claims state them.
Suits(e, sh) == sh.role = None \/ e.role = sh.role

SameButEmployee(a, b) ==
    /\ a.id = b.id /\ a.day = b.day /\ a.start = b.start /\ a.end = b.end
    /\ a.role = b.role /\ a.max_shift_hours = b.max_shift_hours

\* C9: with requests one at a time, an assigned shift keeps its employee_id
\* for ever; generate_roster changes nothing but the employee_id of shifts,
\* adds and removes no shift and no employee; and after it every shift still
\* unassigned has no candidate, so a second call changes no assignment.
C9_AssignmentsAreKept ==
    /\ [][\A i \in 1..Len(shifts) :
            shifts[i].employee_id # None
                => /\ i <= Len(shifts')
                   /\ shifts'[i].employee_id = shifts[i].employee_id]_vars
    /\ [][last'.op = "generate_roster"
            => /\ employees' = employees
               /\ Len(shifts') = Len(shifts)
               /\ \A i \in 1..Len(shifts) :
                     SameButEmployee(shifts'[i], shifts[i])]_vars
    /\ [](last.op = "generate_roster"
            => \A i \in 1..Len(shifts) :
                  shifts[i].employee_id = None
                     => ~\E j \in 1..Len(employees) :
                            Suits(employees[j], shifts[i]))

\* generate_roster has just run over a shift it gave to employee 1 earlier,
\* although a cheaper candidate is stored by now.
C9_Witness ==
    /\ last.op = "generate_roster"
    /\ Len(employees) >= 2
    /\ \E i \in 1..Len(shifts) :
          /\ shifts[i].employee_id = Some(1)
          /\ Suits(employees[2], shifts[i])
          /\ employees[2].hourly_rate < employees[1].hourly_rate

\* C10: every shift with an employee_id refers to a stored employee, and no
\* call fails on a missing employee.
C10_AssignedEmployeeIsStored ==
    /\ \A i \in 1..Len(shifts) :
          shifts[i].employee_id # None
             => \E j \in 1..Len(employees) :
                    employees[j].id = Val(shifts[i].employee_id)
    /\ last.status # "500"

\* What generate_roster does to the shifts, as C1 states it.
AssignsCheapest ==
    \A i \in 1..Len(shifts) :
        shifts[i].employee_id = None
           => LET C == {j \in 1..Len(employees) : Suits(employees[j], shifts[i])}
              IN IF C = {}
                 THEN shifts'[i].employee_id = None
                 ELSE \E j \in C :
                        /\ shifts'[i].employee_id = Some(employees[j].id)
                        /\ \A k \in C :
                              /\ employees[j].hourly_rate <= employees[k].hourly_rate
                              /\ k < j => employees[j].hourly_rate
                                             < employees[k].hourly_rate

CompletesWhenNoCandidate ==
    (\E i \in 1..Len(shifts) :
        /\ shifts[i].employee_id = None
        /\ ~\E j \in 1..Len(employees) : Suits(employees[j], shifts[i]))
      => last'.status = "ok"

\* What every generate_roster call stores, whether or not it then fails in
\* its totals step: every unassigned shift goes to its first cheapest
\* candidate and stays unassigned exactly when it has none.
RosterAssignsCheapest ==
    [][last'.op = "generate_roster" => AssignsCheapest]_vars

\* C1: after a generate_roster call every shift that was unassigned is
\* assigned to its first cheapest candidate, it is still unassigned exactly
\* when it has no candidate, and a call that finds such a shift still
\* completes without error.
C1_RosterAssignsCheapest ==
    [][last'.op = "generate_roster"
         => AssignsCheapest /\ CompletesWhenNoCandidate]_vars

\* Whether a shift counts for the payroll of a period, as C3 states it.
DateKey(d) == d[1] * 10000 + d[2] * 100 + d[3]

Counts(sh, req) ==
    /\ sh.employee_id # None
    /\ DateKey(req.period_start) <= DateKey(sh.day)
    /\ DateKey(sh.day) <= DateKey(req.period_end)

RECURSIVE CountedHours(_, _, _)
\* The hours of the shifts of employee id that count, among the first n.
CountedHours(id, req, n) ==
    IF n = 0 THEN 0
    ELSE CountedHours(id, req, n - 1)
         + (IF Counts(shifts[n], req) /\ shifts[n].employee_id = Some(id)
            THEN Elapsed(shifts[n]) ELSE 0)

\* C3: payroll_calc returns exactly one line for each employee with a shift
\* that counts, none for anyone else, and the line's hours are the sum over
\* those shifts.
C3_OneLinePerPaidEmployee ==
    last.op = "payroll_calc"
      => LET req == Val(last.req)
             paid == {j \in 1..Len(employees) :
                        \E i \in 1..Len(shifts) :
                           /\ Counts(shifts[i], req)
                           /\ shifts[i].employee_id = Some(employees[j].id)}
         IN /\ \A j \in paid :
                  \E k \in 1..Len(last.lines) :
                     /\ last.lines[k].employee_id = employees[j].id
                     /\ last.lines[k].hours
                           = CountedHours(employees[j].id, req, Len(shifts))
                     /\ \A m \in 1..Len(last.lines) :
                           last.lines[m].employee_id = employees[j].id => m = k
            /\ \A k \in 1..Len(last.lines) :
                  \E j \in paid : last.lines[k].employee_id = employees[j].id

\* C6: on every pay line net = gross - tax, gross being hours * hourly_rate
\* rounded to 2 decimals and tax the compute_tax of that gross; the super is
\* on the line and is not taken off.
C6_NetIsGrossLessTax ==
    last.op = "payroll_calc"
      => \A k \in 1..Len(last.lines) :
            LET line == last.lines[k]
                emp == EmployeeById(employees, line.employee_id)
            IN /\ line.net = line.gross - line.tax
               /\ 2 * 3600 * line.gross - 2 * line.hours * emp.hourly_rate
                     \in -3600..3600
               /\ line.tax = compute_tax(emp, line.gross, rule)
               /\ line.super = compute_super(line.gross, rule)

\* A pay line with tax and super both above zero.
C6_Witness ==
    /\ last.op = "payroll_calc"
    /\ \E k \in 1..Len(last.lines) :
          /\ last.lines[k].tax > 0
          /\ last.lines[k].super > 0
          /\ last.lines[k].net = last.lines[k].gross - last.lines[k].tax

\* C8: a roster request commits an assignment for every shift it loaded as
\* unassigned and found a candidate for, whatever another request has stored
\* in that row since; so two concurrent requests that loaded the same shift
\* as unassigned both write it, and the later commit replaces the earlier
\* assignment.
C8_CommitWritesWhatItLoaded ==
    [][\A w \in Workers :
          (wpc[w] = "shifts_loaded" /\ wpc'[w] = "committed")
             => \A i \in 1..Len(wShifts[w]) :
                   (/\ wShifts[w][i].employee_id = None
                    /\ \E j \in 1..Len(wEmps[w]) :
                          Suits(wEmps[w][j], wShifts[w][i]))
                      => \E j \in 1..Len(wEmps[w]) :
                            /\ Suits(wEmps[w][j], wShifts[w][i])
                            /\ shifts'[i].employee_id = Some(wEmps[w][j].id)
                            /\ \A k \in 1..Len(wEmps[w]) :
                                  Suits(wEmps[w][k], wShifts[w][i])
                                     => wEmps[w][j].hourly_rate
                                           <= wEmps[w][k].hourly_rate]_vars

\* Both requests loaded shift i as unassigned, an employee was created
\* between their loads, both have committed, and the row holds the choice of
\* one of them, which is not the choice of the other.
C8_Witness ==
    /\ wpc[1] = "committed" /\ wpc[2] = "committed"
    /\ wEmps[1] # wEmps[2]
    /\ \E i \in 1..Len(shifts) :
          /\ i <= Len(wShifts[1]) /\ i <= Len(wShifts[2])
          /\ wShifts[1][i].employee_id = None
          /\ wShifts[2][i].employee_id = None
          /\ i \in Dirty(1) /\ i \in Dirty(2)
          /\ RosterAssign(wEmps[1], wShifts[1])[i].employee_id
                # RosterAssign(wEmps[2], wShifts[2])[i].employee_id
          /\ shifts[i].employee_id
                = RosterAssign(wEmps[1], wShifts[1])[i].employee_id

\* C5: hours_between is end - start when end >= start and end + 24 h - start
\* when end < start, so it lies in [0, 24) and is 0 for start = end.
C5_HoursBetween ==
    fout # None
      => LET s == fin.start[1] * 60 + fin.start[2]
             e == fin.end[1] * 60 + fin.end[2]
             h == Val(fout)
         IN /\ e >= s => h = (e - s) * 60
            /\ e < s => h = (e + 24 * 60 - s) * 60
            /\ 0 <= h /\ h < 24 * 3600
            /\ fin.start = fin.end => h = 0

\* hours_between("22:00", "06:00") has been computed and is 8 hours.
C5_Witness ==
    /\ fin = [start |-> <<22, 0>>, end |-> <<6, 0>>]
    /\ fout = Some(8 * 3600)

\* C4: for an employee that is not ABN, compute_tax takes the first bracket
\* whose upper edge is not below gross: gross = bracket1_max is taxed by the
\* bracket-1 formula and gross = bracket2_max by the bracket-2 formula.
C4_BracketEdgesClosed ==
    (fout # None /\ fin.emp.employment_type # "ABN")
      => LET g == fin.gross
             r == fin.r
             b1 == round2(g * r.bracket1_rate)
             b2 == round2(r.bracket2_base * 1000
                          + (g - r.bracket1_max) * r.bracket2_rate)
             b3 == round2(r.bracket3_base * 1000
                          + (g - r.bracket2_max) * r.bracket3_rate)
         IN Val(fout) = CASE g <= r.bracket1_max -> b1
                          [] g > r.bracket1_max /\ g <= r.bracket2_max -> b2
                          [] OTHER -> b3

\* A gross equal to bracket1_max has been taxed, under a rule record whose
\* bracket-1 and bracket-2 formulas differ there.
C4_Witness ==
    /\ fout # None
    /\ fin.emp.employment_type = "INT_STUDENT"
    /\ fin.gross = fin.r.bracket1_max
    /\ Val(fout) = round2(fin.gross * fin.r.bracket1_rate)
    /\ Val(fout) # fin.r.bracket2_base

====
